---- MODULE Spec2Model ----
(***************************************************************************)
(* Model of src/SerialConsole/SerialConsole.h: a line-oriented command     *)
(* console (SerialConsole<N_CMDS>) with its argument pipeline              *)
(* (console_detail::Executor) and token converters                         *)
(* (console_detail::ArgTraits).                                            *)
(*                                                                         *)
(* Text is modelled as sequences of one-character strings.  The platform   *)
(* is the Arduino reference one (AVR, avr-libc): int is 16 bits, long is   *)
(* 32 bits, float and double are the same 32-bit type, strtod reads        *)
(* decimal numerals, INF and NAN.                                          *)
(***************************************************************************)
EXTENDS Integers, Sequences, FiniteSets, TLC

\* ------------------------------------------------------------------------
\* Characters and C strings
\* ------------------------------------------------------------------------

\* The terminator '\0' of a C string.
NUL == "\\0"

\* A null char pointer (a usage text may be null).
NULLP == "NULL"

\* Content of a char that was never written (a member array is not
\* initialised by the constructor).
JUNK == "?"

\* Mutant of isspace: the space character is not white space.
isspace_no_blank(c) == c \in {"\t", "\n", "\r", "\f", "\\v"}

\* <ctype.h> isspace in the "C" locale ("\\v" stands for the vertical tab).
isspace(c) == c \in {" ", "\t", "\n", "\r", "\f", "\\v"}

\* Value of c as a digit, 99 when c is no digit of any base up to 16.
DigitVal(c) ==
    CASE c = "0" -> 0 [] c = "1" -> 1 [] c = "2" -> 2 [] c = "3" -> 3
      [] c = "4" -> 4 [] c = "5" -> 5 [] c = "6" -> 6 [] c = "7" -> 7
      [] c = "8" -> 8 [] c = "9" -> 9
      [] c \in {"a", "A"} -> 10 [] c \in {"b", "B"} -> 11
      [] c \in {"c", "C"} -> 12 [] c \in {"d", "D"} -> 13
      [] c \in {"e", "E"} -> 14 [] c \in {"f", "F"} -> 15
      [] OTHER -> 99

\* F applied to the value of v, v being evaluated once (a local variable
\* of the code).
With(v, F(_)) == CHOOSE r \in {F(w) : w \in {v}} : TRUE

\* s[i], or NUL past the end: s is the text before the terminator.
At(s, i) == IF i >= 1 /\ i <= Len(s) THEN s[i] ELSE NUL

\* First index >= i of s that holds no white space.
RECURSIVE SkipSpace(_, _)
SkipSpace(s, i) == IF isspace(At(s, i)) THEN SkipSpace(s, i + 1) ELSE i

\* First index >= i of s that holds no digit of the base.
RECURSIVE SkipDigits(_, _, _)
SkipDigits(s, i, base) ==
    IF DigitVal(At(s, i)) < base THEN SkipDigits(s, i + 1, base) ELSE i

\* ------------------------------------------------------------------------
\* strtol(str, &end, 0) and strtod(str, &end)
\* ------------------------------------------------------------------------

\* Width of int and of long on the platform.
INT_BITS == 16
LONG_BITS == 32

Pow2(n) == 2 ^ n
LONG_MAX == (Pow2(LONG_BITS - 2) - 1) + Pow2(LONG_BITS - 2)
LONG_MIN == (-LONG_MAX) - 1

\* Magnitude of the digits s[i..j-1] in the base, saturating: over is TRUE
\* once the magnitude exceeds LONG_MAX (strtol then reports ERANGE).
RECURSIVE Accumulate(_, _, _, _, _)
Accumulate(s, i, j, base, acc) ==
    IF i >= j THEN acc
    ELSE LET d == DigitVal(s[i])
         IN  IF acc.over \/ acc.mag > (LONG_MAX - d) \div base
             THEN Accumulate(s, i + 1, j, base, [mag |-> LONG_MAX, over |-> TRUE])
             ELSE Accumulate(s, i + 1, j, base,
                             [mag |-> acc.mag * base + d, over |-> FALSE])

\* The long for a magnitude read by strtol: LONG_MAX or LONG_MIN when it
\* is out of range.
Signed(neg, acc) ==
    IF neg THEN (IF acc.over THEN LONG_MIN ELSE -acc.mag)
    ELSE (IF acc.over THEN LONG_MAX ELSE acc.mag)

\* Position after an optional sign at p.
SignEnd(s, p) == IF At(s, p) \in {"-", "+"} THEN p + 1 ELSE p

\* strtol once the digits s[d0..d1-1] of the base are known.  end is the
\* number of characters up to the end pointer (0: no conversion,
\* end == str); val is the long.
strtol_value(s, neg, d0, d1, base) ==
    IF d1 = d0 THEN [val |-> 0, end |-> 0]
    ELSE [val |-> Signed(neg, Accumulate(s, d0, d1, base, [mag |-> 0, over |-> FALSE])),
          end |-> d1 - 1]

strtol_digits(s, neg, d0, base) ==
    With(SkipDigits(s, d0, base), LAMBDA d1 : strtol_value(s, neg, d0, d1, base))

\* Base 0: 0x or 0X before a hex digit selects 16, a leading 0 selects 8.
strtol_base(s, neg, q) ==
    IF At(s, q) = "0" /\ At(s, q + 1) \in {"x", "X"} /\ DigitVal(At(s, q + 2)) < 16
    THEN strtol_digits(s, neg, q + 2, 16)
    ELSE IF At(s, q) = "0" THEN strtol_digits(s, neg, q, 8)
    ELSE strtol_digits(s, neg, q, 10)

strtol_sign(s, p) == strtol_base(s, At(s, p) = "-", SignEnd(s, p))

\* strtol(str, &end, 0) on the string s: white space, sign, digits.
strtol(s) == With(SkipSpace(s, 1), LAMBDA p : strtol_sign(s, p))

\* Conversion of a long to a signed integer of the given width (the
\* assignment out = strtol(...) of an int): the value modulo 2^bits.
WrapTo(v, bits) ==
    IF bits >= LONG_BITS THEN v
    ELSE LET m == Pow2(bits)
             r == v % m
         IN  IF r >= Pow2(bits - 1) THEN r - m ELSE r

\* A decimal value (-1)^neg * mant * 10^exp without trailing zeros in mant.
RECURSIVE Normalise(_)
Normalise(v) ==
    IF v.mant = 0 THEN [neg |-> v.neg, mant |-> 0, exp |-> 0]
    ELSE IF v.mant % 10 = 0
         THEN Normalise([neg |-> v.neg, mant |-> v.mant \div 10, exp |-> v.exp + 1])
         ELSE v

Lower(c) ==
    CASE c = "I" -> "i" [] c = "N" -> "n" [] c = "F" -> "f" [] c = "A" -> "a"
      [] c = "T" -> "t" [] c = "Y" -> "y" [] OTHER -> c

\* Whether the characters of s from index i on start with the word w,
\* letter case ignored.
HasWord(s, i, w) == \A k \in 1..Len(w) : Lower(At(s, i + k - 1)) = w[k]

\* Value of the exponent digits s[es..e1-1], signed by s[es-1].
ExpVal(s, es, e1) ==
    IF At(s, es - 1) = "-"
    THEN -Accumulate(s, es, e1, 10, [mag |-> 0, over |-> FALSE]).mag
    ELSE Accumulate(s, es, e1, 10, [mag |-> 0, over |-> FALSE]).mag

\* strtod after the mantissa, which ends before mEnd: an exponent is taken
\* only when a digit follows the e and its sign (es..e1-1 are its digits).
strtod_exp(s, neg, mant, nFra, mEnd, es, e1) ==
    IF At(s, mEnd) \in {"e", "E"} /\ e1 > es
    THEN [val |-> Normalise([neg |-> neg, mant |-> mant,
                             exp |-> ExpVal(s, es, e1) - nFra]),
          end |-> e1 - 1]
    ELSE [val |-> Normalise([neg |-> neg, mant |-> mant, exp |-> -nFra]),
          end |-> mEnd - 1]

strtod_mant(s, neg, mant, nFra, mEnd, es) ==
    With(SkipDigits(s, es, 10),
         LAMBDA e1 : strtod_exp(s, neg, mant, nFra, mEnd, es, e1))

\* strtod with integer digits s[q..i1-1] and fraction digits s[f0..f1-1].
strtod_frac(s, neg, q, i1, f0, f1) ==
    IF (i1 - q) + (f1 - f0) = 0
    THEN [val |-> [neg |-> FALSE, mant |-> 0, exp |-> 0], end |-> 0]
    ELSE With(Accumulate(s, f0, f1, 10,
                  Accumulate(s, q, i1, 10, [mag |-> 0, over |-> FALSE])).mag,
              LAMBDA mant :
                 strtod_mant(s, neg, mant, f1 - f0, f1, SignEnd(s, f1 + 1)))

strtod_int(s, neg, q, i1) ==
    IF At(s, i1) = "."
    THEN With(SkipDigits(s, i1 + 1, 10),
              LAMBDA f1 : strtod_frac(s, neg, q, i1, i1 + 1, f1))
    ELSE strtod_frac(s, neg, q, i1, i1, i1)

\* val is the value read, carried as an exact decimal, infinity or NaN.
strtod_body(s, neg, q) ==
    IF HasWord(s, q, <<"i", "n", "f", "i", "n", "i", "t", "y">>)
    THEN [val |-> [neg |-> neg, inf |-> TRUE], end |-> q + 7]
    ELSE IF HasWord(s, q, <<"i", "n", "f">>)
    THEN [val |-> [neg |-> neg, inf |-> TRUE], end |-> q + 2]
    ELSE IF HasWord(s, q, <<"n", "a", "n">>)
    THEN [val |-> [nan |-> TRUE], end |-> q + 2]
    ELSE With(SkipDigits(s, q, 10), LAMBDA i1 : strtod_int(s, neg, q, i1))

strtod_sign(s, p) == strtod_body(s, At(s, p) = "-", SignEnd(s, p))

\* strtod(str, &end) on the string s: white space, sign, then INF,
\* INFINITY, NAN or digits with an optional point and an optional exponent.
strtod(s) == With(SkipSpace(s, 1), LAMBDA p : strtod_sign(s, p))

\* ------------------------------------------------------------------------
\* console_detail::ArgTraits<T>::parse
\* A converted value carries its C++ type: [int |-> n], [long |-> n],
\* [float |-> d], [ptr |-> p].
\* ------------------------------------------------------------------------

\* The string a char pointer p into the buffer denotes: the characters from
\* p up to the next terminator.  Pointers are 1-based positions; 0 is NULL.
RECURSIVE CStr(_, _)
CStr(buf, p) ==
    IF p < 1 \/ p > Len(buf) \/ buf[p] = NUL THEN <<>>
    ELSE <<buf[p]>> \o CStr(buf, p + 1)

\* Mutant of Checked: only str != end is tested, not *end == '\0'.
Checked_partial(s, r) == [ok |-> r.end # 0, val |-> r.val]

\* str != end && *end == '\0', for a conversion r of the string s that
\* stopped after r.end characters.
Checked(s, r) == [ok |-> r.end # 0 /\ At(s, r.end + 1) = NUL, val |-> r.val]

\* out = strtol(...) for an int: the long is converted to int.
AsInt(c) == [ok |-> c.ok, out |-> [int |-> WrapTo(c.val, INT_BITS)]]

AsLong(c) == [ok |-> c.ok, out |-> [long |-> WrapTo(c.val, LONG_BITS)]]

\* out = strtod(...) for a float.
AsFloat(c) == [ok |-> c.ok, out |-> [float |-> c.val]]

\* strtol(str, &end, 0) and the test of end, for the string s.
ParseLong(s) == With(strtol(s), LAMBDA r : Checked(s, r))

\* strtod(str, &end) and the test of end, for the string s.
ParseDouble(s) == With(strtod(s), LAMBDA r : Checked(s, r))

ArgTraits_int_parse(buf, str) ==
    With(CStr(buf, str), LAMBDA s : With(ParseLong(s), AsInt))

ArgTraits_long_parse(buf, str) ==
    With(CStr(buf, str), LAMBDA s : With(ParseLong(s), AsLong))

ArgTraits_float_parse(buf, str) ==
    With(CStr(buf, str), LAMBDA s : With(ParseDouble(s), AsFloat))

\* The double converter writes through a float reference, like the float one.
ArgTraits_double_parse(buf, str) ==
    With(CStr(buf, str), LAMBDA s : With(ParseDouble(s), AsFloat))

\* Mutant of the text converters: the token must read as a whole numeral.
ArgTraits_text_parse_numeral(buf, str) ==
    [ok |-> ParseLong(CStr(buf, str)).ok, out |-> [ptr |-> str]]

\* The text converters store the pointer itself.
ArgTraits_charp_parse(buf, str) == [ok |-> TRUE, out |-> [ptr |-> str]]

ArgTraits_constcharp_parse(buf, str) == [ok |-> TRUE, out |-> [ptr |-> str]]

\* Selection of the specialisation ArgTraits<Head>.
ArgTraits_parse(T, buf, str) ==
    CASE T = "int"         -> ArgTraits_int_parse(buf, str)
      [] T = "long"        -> ArgTraits_long_parse(buf, str)
      [] T = "float"       -> ArgTraits_float_parse(buf, str)
      [] T = "double"      -> ArgTraits_double_parse(buf, str)
      [] T = "char*"       -> ArgTraits_charp_parse(buf, str)
      [] T = "const char*" -> ArgTraits_constcharp_parse(buf, str)

\* ------------------------------------------------------------------------
\* strtok(s, " ")
\* ------------------------------------------------------------------------

\* First position >= p of buf that holds no delimiter.
RECURSIVE SkipDelim(_, _, _)
SkipDelim(buf, p, delim) ==
    IF At(buf, p) \in delim THEN SkipDelim(buf, p + 1, delim) ELSE p

\* First position >= p of buf that holds a delimiter or the terminator.
RECURSIVE FindDelim(_, _, _)
FindDelim(buf, p, delim) ==
    IF At(buf, p) \in delim \/ At(buf, p) = NUL THEN p
    ELSE FindDelim(buf, p + 1, delim)

\* strtok for a token that starts at `start` and stops at `stop`: the
\* delimiter that ends the token is overwritten by a terminator.
strtok_end(buf, start, stop) ==
    IF At(buf, stop) = NUL
    THEN [token |-> start, buf |-> buf, last |-> 0]
    ELSE [token |-> start, buf |-> [buf EXCEPT ![stop] = NUL], last |-> stop + 1]

strtok_start(buf, start, delim) ==
    IF At(buf, start) = NUL
    THEN [token |-> 0, buf |-> buf, last |-> 0]
    ELSE With(FindDelim(buf, start, delim),
              LAMBDA stop : strtok_end(buf, start, stop))

strtok_from(buf, from, delim) ==
    IF from = 0 THEN [token |-> 0, buf |-> buf, last |-> 0]
    ELSE With(SkipDelim(buf, from, delim),
              LAMBDA start : strtok_start(buf, start, delim))

\* strtok(s, delim) with the static save pointer `last`; s = 0 is NULL.
\* token = 0 is the NULL result.
strtok(buf, s, last, delim) ==
    strtok_from(buf, IF s # 0 THEN s ELSE last, delim)

\* What a strtok result points at: the token, or NULLP for a NULL result.
TokenText(t) == IF t.token = 0 THEN NULLP ELSE CStr(t.buf, t.token)

\* Mutant of Delimiters: the tab separates tokens too.
Delimiters_tab == {" ", "\t"}

\* The delimiter string " " of both strtok calls.
Delimiters == {" "}

\* ------------------------------------------------------------------------
\* Output stream: print and println
\* ------------------------------------------------------------------------

\* A flash string literal F("...") is written as one piece.
print_F(o, lit) == Append(o, lit)

\* print of a char array: its characters.
print(o, text) == o \o text

println(o, text) == (o \o text) \o <<"\r\n">>

\* ------------------------------------------------------------------------
\* console_detail::Executor<Args...>::run
\* ------------------------------------------------------------------------

MissingMsg == "Err: Missing argument. Usage: "
InvalidMsg == "Err: Invalid argument '"
UsageMsg   == "'. Usage: "
UnknownMsg == "Unknown command. Type 'help' for list of commands."

\* What a handler is given for a collected value: a number by value, a
\* text pointer together with the text it points at when the call is made.
Passed(buf, v) ==
    IF "ptr" \in DOMAIN v THEN [ptr |-> v.ptr, text |-> CStr(buf, v.ptr)]
    ELSE v

\* Mutant of Executor_base_run: the base case asks the tokenizer for one
\* more token before it calls f.
Executor_base_run_one_more(f, collected, x) ==
    With(strtok(x.buf, 0, x.last, Delimiters),
         LAMBDA t :
            [x EXCEPT !.buf = t.buf, !.last = t.last,
                      !.tokens = Append(@, TokenText(t)),
                      !.calls = Append(@, [f |-> f,
                                           args |-> [k \in 1..Len(collected) |->
                                                        Passed(t.buf, collected[k])]]),
                      !.called = TRUE])

\* Base case Executor<>::run: cast f back and call it with the collected
\* values.
Executor_base_run(f, collected, x) ==
    [x EXCEPT !.calls = Append(@, [f |-> f,
                                   args |-> [k \in 1..Len(collected) |->
                                                Passed(x.buf, collected[k])]]),
              !.called = TRUE]

\* Mutant of Collect: the new value is put in front of the collected ones.
Collect_front(collected, val) == <<val>> \o collected

\* The value Executor<Head, Tail...>::run passes on: collected..., val.
Collect(collected, val) == Append(collected, val)

\* usage ? usage : ""
UsageText(usage) == IF usage # NULLP THEN usage ELSE <<>>

\* Mutant of MissingArgument: the space between name and usage is left out.
MissingArgument_nospace(o, name, usage) ==
    println(print(print_F(o, MissingMsg), name), UsageText(usage))

\* The report of a missing argument.
MissingArgument(o, name, usage) ==
    println(print(print(print_F(o, MissingMsg), name), <<" ">>), UsageText(usage))

\* The report of an argument that does not convert.
InvalidArgument(o, token, name, usage) ==
    println(print(print(print_F(print(print_F(o, InvalidMsg), token), UsageMsg),
                        name), <<" ">>), UsageText(usage))

\* Executor<Args...>::run(f, name, usage, s, collected...), Args being the
\* parameter kinds still to read.  x holds the buffer, strtok's save
\* pointer, the stream output, the calls made and the tokens strtok gave
\* so far.
RECURSIVE Executor_run(_, _, _, _, _, _)

\* Mutant of Executor_parsed: after the report of an invalid argument the
\* pipeline goes on with the next parameter instead of returning.
Executor_parsed_goes_on(Args, f, name, usage, collected, x, token, r) ==
    IF ~r.ok
    THEN Executor_run(Tail(Args), f, name, usage, Collect(collected, r.out),
             [x EXCEPT !.out = InvalidArgument(@, CStr(x.buf, token), name, usage)])
    ELSE Executor_run(Tail(Args), f, name, usage, Collect(collected, r.out), x)

\* Executor<Head, Tail...>::run after the conversion r of the token.
Executor_parsed(Args, f, name, usage, collected, x, token, r) ==
    IF ~r.ok
    THEN [x EXCEPT !.out = InvalidArgument(@, CStr(x.buf, token), name, usage)]
    ELSE With(Collect(collected, r.out),
              LAMBDA c : Executor_run(Tail(Args), f, name, usage, c, x))

\* Executor<Head, Tail...>::run after strtok(NULL, " ") gave t.
Executor_token(Args, f, name, usage, collected, x, t) ==
    IF t.token = 0
    THEN [x EXCEPT !.buf = t.buf, !.last = t.last,
                   !.tokens = Append(@, TokenText(t)),
                   !.out = MissingArgument(@, name, usage)]
    ELSE With([x EXCEPT !.buf = t.buf, !.last = t.last,
                        !.tokens = Append(@, TokenText(t))],
              LAMBDA x1 :
                 With(ArgTraits_parse(Head(Args), t.buf, t.token),
                      LAMBDA r : Executor_parsed(Args, f, name, usage, collected,
                                                 x1, t.token, r)))

Executor_run(Args, f, name, usage, collected, x) ==
    IF Args = <<>> THEN Executor_base_run(f, collected, x)
    ELSE With(strtok(x.buf, 0, x.last, Delimiters),
              LAMBDA t : Executor_token(Args, f, name, usage, collected, x, t))

\* ------------------------------------------------------------------------
\* SerialConsole<N_CMDS>: registration
\* ------------------------------------------------------------------------

\* Max command length (including arguments).
INPUT_BUF_SIZE == 64

\* A member the constructor leaves unset.
UNINIT == "uninit"

\* SerialConsole(Stream &s): the table and the buffer are not initialised.
NewConsole(N_CMDS) ==
    [commands |-> [i \in 1..N_CMDS |-> [name |-> UNINIT, usage |-> UNINIT,
                                        func |-> UNINIT, invoker |-> UNINIT]],
     inputBuf |-> [i \in 1..INPUT_BUF_SIZE |-> JUNK]]

\* Mutant of initArgs: the triples are stored from the last slot down.
RECURSIVE initArgs_reverse(_, _, _)
initArgs_reverse(cmds, i, args) ==
    IF args = <<>> THEN cmds
    ELSE IF i >= Len(cmds) THEN cmds
    ELSE initArgs_reverse([cmds EXCEPT ![Len(cmds) - i] =
                              [name    |-> Head(args).name,
                               usage   |-> Head(args).usage,
                               func    |-> Head(args).func,
                               invoker |-> [Executor |-> Head(args).sig]]],
                          i + 1, Tail(args))

\* Mutant of initArgs: an index past the table wraps around to its start.
RECURSIVE initArgs_wrap(_, _, _)
initArgs_wrap(cmds, i, args) ==
    IF args = <<>> THEN cmds
    ELSE initArgs_wrap([cmds EXCEPT ![(i % Len(cmds)) + 1] =
                           [name    |-> Head(args).name,
                            usage   |-> Head(args).usage,
                            func    |-> Head(args).func,
                            invoker |-> [Executor |-> Head(args).sig]]],
                       i + 1, Tail(args))

\* initArgs(i, name, func, usage, rest...) on the table cmds; args is the
\* list of (name, func, usage) triples still to register, sig the parameter
\* types FuncArgs... of func, which the slot's invoker is bound to.
RECURSIVE initArgs(_, _, _)
initArgs(cmds, i, args) ==
    IF args = <<>> THEN cmds
    ELSE IF i >= Len(cmds) THEN cmds
    ELSE initArgs([cmds EXCEPT ![i + 1] =
                      [name    |-> Head(args).name,
                       usage   |-> Head(args).usage,
                       func    |-> Head(args).func,
                       invoker |-> [Executor |-> Head(args).sig]]],
                  i + 1, Tail(args))

\* createConsole(args...) / createConsoleStream(s, args...): a console of
\* sizeof...(Args) / 3 slots, filled from index 0.
createConsole(args) ==
    LET c == NewConsole(Len(args))
    IN  [c EXCEPT !.commands = initArgs(c.commands, 0, args)]

\* ------------------------------------------------------------------------
\* SerialConsole<N_CMDS>: runtime
\* ------------------------------------------------------------------------

RECURSIVE BytesUntil(_, _, _, _)

\* Mutant of BytesUntil: the terminator does not stop the read.
BytesUntil_all(rx, terminator, length, index) ==
    IF length < Len(rx) THEN length ELSE Len(rx)

\* Number of bytes Stream::readBytesUntil(terminator, buffer, length) stores
\* from the pending bytes rx: it stops before the terminator, after length
\* bytes, or when no byte is left (the read times out).
BytesUntil(rx, terminator, length, index) ==
    IF index < length /\ index < Len(rx) /\ rx[index + 1] # terminator
    THEN BytesUntil(rx, terminator, length, index + 1)
    ELSE index

\* The while loop of readInputLine: trailing white space becomes NUL.
RECURSIVE TrimRight(_, _)
TrimRight(buf, len) ==
    IF len > 0 /\ isspace(buf[len])
    THEN TrimRight([buf EXCEPT ![len] = NUL], len - 1)
    ELSE [buf |-> buf, len |-> len]

\* readBytesUntil stored len bytes of rx at the start of buf; the
\* terminator is written after them.
Stored(buf, rx, len) ==
    [i \in 1..Len(buf) |->
        IF i <= len THEN rx[i] ELSE IF i = len + 1 THEN NUL ELSE buf[i]]

\* readInputLine() after len bytes were read and the line was trimmed to t.
\* taken is the number of bytes removed from the stream: the terminator is
\* removed too when the read stopped at it.
readInputLine_read(rx, len, t) ==
    [ret |-> t.len > 0, buf |-> t.buf,
     taken |-> IF len < INPUT_BUF_SIZE - 1 /\ len < Len(rx) THEN len + 1 ELSE len]

readInputLine_len(buf, rx, len) ==
    readInputLine_read(rx, len, TrimRight(Stored(buf, rx, len), len))

\* Mutant of readInputLine: _stream.available() is not tested, the read is
\* made on an empty stream too.
readInputLine_unguarded(buf, rx) ==
    readInputLine_len(buf, rx, BytesUntil(rx, "\n", INPUT_BUF_SIZE - 1, 0))

\* Mutant of readInputLine: the read is given the whole buffer,
\* INPUT_BUF_SIZE bytes, with no room kept for the terminator.
readInputLine_full(buf, rx) ==
    IF Len(rx) = 0
    THEN [ret |-> FALSE, buf |-> buf, taken |-> 0]
    ELSE readInputLine_len(buf, rx, BytesUntil(rx, "\n", INPUT_BUF_SIZE, 0))

\* readInputLine() on the buffer and the pending bytes rx.
readInputLine(buf, rx) ==
    IF Len(rx) = 0
    THEN [ret |-> FALSE, buf |-> buf, taken |-> 0]
    ELSE readInputLine_len(buf, rx, BytesUntil(rx, "\n", INPUT_BUF_SIZE - 1, 0))

\* Mutant of StrEq: only the characters of a are compared (a strncmp over
\* the length of the token), so a prefix of b is equal to it.
StrEq_prefix(buf, a, b) ==
    /\ Len(CStr(buf, a)) <= Len(b)
    /\ CStr(buf, a) = SubSeq(b, 1, Len(CStr(buf, a)))

\* strcmp(a, b) == 0 for a pointer a into the buffer and a text b.
StrEq(buf, a, b) == CStr(buf, a) = b

help == <<"h", "e", "l", "p">>

\* One line of printHelp(): name, then usage when there is one.
HelpLine(o, c) ==
    IF c.usage # NULLP
    THEN println(print(print_F(print(print_F(o, "  "), c.name), " "), c.usage), <<>>)
    ELSE println(print(print_F(o, "  "), c.name), <<>>)

\* printHelp(): every slot from i on.
RECURSIVE printHelp(_, _, _)
printHelp(cmds, i, o) ==
    IF i >= Len(cmds) THEN o
    ELSE printHelp(cmds, i + 1, HelpLine(o, cmds[i + 1]))

\* Mutant of Lookup: the loop does not return at the first match, the last
\* matching slot wins.
RECURSIVE Lookup_last(_, _, _, _)
Lookup_last(cmds, buf, token, i) ==
    IF i >= Len(cmds) THEN 0
    ELSE IF Lookup_last(cmds, buf, token, i + 1) # 0
    THEN Lookup_last(cmds, buf, token, i + 1)
    ELSE IF StrEq(buf, token, cmds[i + 1].name) THEN i + 1
    ELSE 0

\* The for loop of handleInput: the first i with strcmp(token, name) == 0,
\* as a 1-based slot; 0 when the loop ends without a match.
RECURSIVE Lookup(_, _, _, _)
Lookup(cmds, buf, token, i) ==
    IF i >= Len(cmds) THEN 0
    ELSE IF StrEq(buf, token, cmds[i + 1].name) THEN i + 1
    ELSE Lookup(cmds, buf, token, i + 1)

\* The lambda initArgs binds to a slot: Executor<FuncArgs...>::run(f, n, u, s).
Invoker(inv, f, n, u, x) == Executor_run(inv.Executor, f, n, u, <<>>, x)

\* The call _commands[i].invoker(func, name, usage, _stream) for the slot c
\* at the 1-based index i.
CallInvoker(c, i, x) ==
    With([x EXCEPT !.invoked = Append(@, [slot |-> i, f |-> c.func,
                                          name |-> c.name, usage |-> c.usage])],
         LAMBDA y : Invoker(c.invoker, c.func, c.name, c.usage, y))

println_F(o, lit) == Append(Append(o, lit), "\r\n")

\* ------------------------------------------------------------------------
\* Inputs: the commands registered and the bytes the peer sends
\* ------------------------------------------------------------------------

add  == <<"a", "d", "d">>
say  == <<"s", "a", "y">>
ping == <<"p", "i", "n", "g">>

\* (name, func, usage) triples; sig is the parameter list of func.
T_add  == [name |-> add, func |-> "add", sig |-> <<"int", "int">>,
           usage |-> <<"<", "a", ">", " ", "<", "b", ">">>]
T_add2 == [name |-> add, func |-> "add2", sig |-> <<"long">>, usage |-> NULLP]
T_help == [name |-> help, func |-> "myhelp", sig |-> <<>>, usage |-> <<"?">>]
T_say  == [name |-> say, func |-> "say", sig |-> <<"const char*", "float">>,
           usage |-> <<"<", "s", ">">>]
T_ping == [name |-> ping, func |-> "ping", sig |-> <<>>, usage |-> NULLP]

Registries ==
    { <<T_add, T_add2>>, <<T_help, T_add>>, <<T_say, T_ping, T_add2>> }

RECURSIVE Join(_, _)
Join(ws, sep) ==
    IF Len(ws) = 0 THEN <<>>
    ELSE IF Len(ws) = 1 THEN ws[1]
    ELSE ws[1] \o sep \o Join(Tail(ws), sep)

SP == <<" ">>
NL == <<"\n">>
n3 == <<"3">>
n4 == <<"4">>
bad == <<"1", "2", "a">>

\* A line whose words are separated by single spaces, with its newline.
Ln(ws) == Join(ws, SP) \o NL

\* n times the letter x.
Pad(n) == [k \in 1..n |-> "x"]

\* A line of more than INPUT_BUF_SIZE - 1 bytes: ping, a space, 62 letters
\* and the newline.
LongLine == ping \o SP \o Pad(INPUT_BUF_SIZE - 2) \o NL

\* A burst that stops in the middle of a line: no newline ends it.
PartLine == add \o SP \o n3

Lines ==
    { Ln(<<add, n3, n4>>),
      Ln(<<add, n3>>),
      Ln(<<add>>),
      Ln(<<add, <<"x">>, n4>>),
      Ln(<<add, <<"x">>>>),
      Ln(<<add, n3, bad>>),
      Ln(<<add, <<"4", "0", "0", "0", "0">>, <<"-", "0", "x", "1", "F">>>>),
      Ln(<<add, n3, n4, <<"5">>>>),
      add \o <<" ", " ">> \o n3 \o <<" ", " ", " ">> \o n4 \o <<" ", "\r", "\n">>,
      add \o <<"\t">> \o n3 \o SP \o n4 \o NL,
      SP \o Ln(<<add, <<"0", "1", "0">>, n4>>),
      Ln(<<help>>),
      Ln(<<help, <<"m", "e">>>>),
      Ln(<<<<"A", "d", "d">>, n3, n4>>),
      Ln(<<<<"a", "d">>, n3>>),
      Ln(<<say, <<"h", "i">>, <<"1", ".", "5">>>>),
      Ln(<<say, bad, <<"x">>>>),
      Ln(<<ping, <<"x">>>>),
      NL,
      <<" ", "\t", "\n">>,
      LongLine,
      PartLine }

\* Number of bursts of bytes the peer sends in a behaviour.
MaxFeeds == 2

\* ------------------------------------------------------------------------
\* State
\* ------------------------------------------------------------------------

VARIABLES
    commands,   \* _commands: the table of N_CMDS slots
    inputBuf,   \* _inputBuf
    last,       \* the save pointer of strtok (0: NULL)
    rx,         \* bytes of _stream not read yet
    pc,         \* where handleInput is: Idle, LineReady, Dispatching, Handler
    cur,        \* the slot that matched (1-based), 0 when none
    line,       \* bytes the running (or last) call took from the stream
    out,        \* what the running (or last) call wrote to _stream
    calls,      \* handler invocations of the running (or last) call
    invoked,    \* invoker calls of the running (or last) call
    tokens,     \* what each strtok call of that call returned, in order
    fed,        \* bursts sent so far
    reg         \* the last initArgs call: its index i and its triples args

vars == <<commands, inputBuf, last, rx, pc, cur, line, out, calls, invoked,
          tokens, fed, reg>>

\* The console c as constructed, with `bytes` waiting in the stream.
InitWith(c, bytes) ==
    /\ commands = c.commands
    /\ inputBuf = c.inputBuf
    /\ last = 0
    /\ rx = bytes
    /\ pc = "Idle"
    /\ cur = 0
    /\ line = <<>>
    /\ out = <<>>
    /\ calls = <<>>
    /\ invoked = <<>>
    /\ tokens = <<>>
    /\ fed = IF bytes = <<>> THEN 0 ELSE 1

Init ==
    \E args \in Registries :
        /\ InitWith(createConsole(args), <<>>)
        /\ reg = [i |-> 0, args |-> args]

\* The peer sends a burst of bytes.
Feed ==
    /\ pc = "Idle"
    /\ fed < MaxFeeds
    /\ \E l \in Lines : rx' = rx \o l
    /\ fed' = fed + 1
    /\ UNCHANGED <<commands, inputBuf, last, pc, cur, line, out, calls, invoked,
                   tokens, reg>>

ReadLineTo(r) ==
    /\ inputBuf' = r.buf
    /\ rx' = SubSeq(rx, r.taken + 1, Len(rx))
    /\ line' = SubSeq(rx, 1, r.taken)
    /\ pc' = IF r.ret THEN "LineReady" ELSE "Idle"

\* handleInput() is entered: readInputLine().
ReadLine ==
    /\ pc = "Idle"
    /\ \E r \in {readInputLine(inputBuf, rx)} : ReadLineTo(r)
    /\ cur' = 0
    /\ out' = <<>>
    /\ calls' = <<>>
    /\ invoked' = <<>>
    /\ tokens' = <<>>
    /\ UNCHANGED <<commands, last, fed, reg>>

\* Mutant of DispatchTo: the table is searched before the token is
\* compared with help.
DispatchTo_table_first(o, t, i) ==
    /\ inputBuf' = t.buf
    /\ last' = t.last
    /\ tokens' = Append(tokens, TokenText(t))
    /\ IF t.token = 0
       THEN out' = o /\ pc' = "Idle" /\ cur' = 0
       ELSE IF i # 0
       THEN out' = o /\ pc' = "Dispatching" /\ cur' = i
       ELSE IF StrEq(t.buf, t.token, help)
       THEN out' = printHelp(commands, 0, o) /\ pc' = "Idle" /\ cur' = 0
       ELSE out' = println_F(o, UnknownMsg) /\ pc' = "Idle" /\ cur' = 0

\* handleInput() from the first token t on, o being the output after the
\* echo: no token, help, the slot i that matched, or no match.
DispatchTo(o, t, i) ==
    /\ inputBuf' = t.buf
    /\ last' = t.last
    /\ tokens' = Append(tokens, TokenText(t))
    /\ IF t.token = 0
       THEN out' = o /\ pc' = "Idle" /\ cur' = 0
       ELSE IF StrEq(t.buf, t.token, help)
       THEN out' = printHelp(commands, 0, o) /\ pc' = "Idle" /\ cur' = 0
       ELSE IF i # 0
       THEN out' = o /\ pc' = "Dispatching" /\ cur' = i
       ELSE out' = println_F(o, UnknownMsg) /\ pc' = "Idle" /\ cur' = 0

DispatchToken(o, t) ==
    \E i \in {Lookup(commands, t.buf, t.token, 0)} : DispatchTo(o, t, i)

\* Mutant of Dispatch: the first token is asked for with strtok(NULL, " "),
\* which goes on from the save pointer of the call before.
Dispatch_resume ==
    /\ pc = "LineReady"
    /\ \E o \in {println(print_F(out, "> "), CStr(inputBuf, 1))},
          t \in {strtok(inputBuf, 0, last, Delimiters)} :
          DispatchToken(o, t)
    /\ UNCHANGED <<commands, rx, line, calls, invoked, fed, reg>>

\* Mutant of Dispatch: the line is echoed after strtok has cut the first
\* token out of the buffer.
Dispatch_echo_late ==
    /\ pc = "LineReady"
    /\ \E t \in {strtok(inputBuf, 1, last, Delimiters)} :
          \E o \in {println(print_F(out, "> "), CStr(t.buf, 1))} :
             DispatchToken(o, t)
    /\ UNCHANGED <<commands, rx, line, calls, invoked, fed, reg>>

\* handleInput() after a line was read: echo, first token, help, lookup.
Dispatch ==
    /\ pc = "LineReady"
    /\ \E o \in {println(print_F(out, "> "), CStr(inputBuf, 1))},
          t \in {strtok(inputBuf, 1, last, Delimiters)} :
          DispatchToken(o, t)
    /\ UNCHANGED <<commands, rx, line, calls, invoked, fed, reg>>

InvokeTo(x) ==
    /\ inputBuf' = x.buf
    /\ last' = x.last
    /\ out' = x.out
    /\ calls' = x.calls
    /\ invoked' = x.invoked
    /\ tokens' = x.tokens
    /\ pc' = IF x.called THEN "Handler" ELSE "Idle"

\* handleInput() calls the invoker of the slot that matched; the Executor
\* reads the arguments and either reports an error or calls the handler.
Invoke ==
    /\ pc = "Dispatching"
    /\ \E x \in {CallInvoker(commands[cur], cur,
                    [buf |-> inputBuf, last |-> last, out |-> out, calls |-> calls,
                     invoked |-> invoked, tokens |-> tokens, called |-> FALSE])} :
          InvokeTo(x)
    /\ UNCHANGED <<commands, rx, cur, line, fed, reg>>

\* The handler returns, and handleInput() with it.
HandlerReturn ==
    /\ pc = "Handler"
    /\ pc' = "Idle"
    /\ UNCHANGED <<commands, inputBuf, last, rx, cur, line, out, calls, invoked,
                   tokens, fed, reg>>

Next == Feed \/ ReadLine \/ Dispatch \/ Invoke \/ HandlerReturn

Spec == Init /\ [][Next]_vars

\* A call of handleInput runs to its end: nothing suspends it between its
\* steps, and the handlers are taken to return.
FairSpec ==
    Spec /\ WF_vars(Dispatch) /\ WF_vars(Invoke) /\ WF_vars(HandlerReturn)

\* ------------------------------------------------------------------------
\* The converters on every token of a bounded alphabet: a console with one
\* command p of one numeric parameter, and the line "p <token>" waiting.
\* ------------------------------------------------------------------------

TokenAlphabet == {"0", "1", "8", "x", "e", "-", "+", ".", "\t"}

\* Longest token.
MaxTokLen == 3

AllTokens == UNION {[1..n -> TokenAlphabet] : n \in 1..MaxTokLen}

\* The parameter kinds a handler can be registered with for a number.
NumericKinds == {"int", "long", "float"}

T_num(kind) == [name |-> <<"p">>, func |-> "p", sig |-> <<kind>>,
                usage |-> <<"<", "n", ">">>]

InitParse ==
    \E kind \in NumericKinds, t \in AllTokens :
        /\ InitWith(createConsole(<<T_num(kind)>>), <<"p", " ">> \o t \o <<"\n">>)
        /\ reg = [i |-> 0, args |-> <<T_num(kind)>>]

NextParse == ReadLine \/ Dispatch \/ Invoke \/ HandlerReturn

SpecParse == InitParse /\ [][NextParse]_vars

\* ------------------------------------------------------------------------
\* The text converters on every token of the bounded alphabet: a console
\* with one command p of one text parameter, and the line "p <token>"
\* waiting.
\* ------------------------------------------------------------------------

\* The parameter kinds a handler can be registered with for a text.
TextKinds == {"char*", "const char*"}

T_text(kind) == [name |-> <<"p">>, func |-> "p", sig |-> <<kind>>,
                 usage |-> <<"<", "s", ">">>]

InitText ==
    \E kind \in TextKinds, t \in AllTokens :
        /\ InitWith(createConsole(<<T_text(kind)>>), <<"p", " ">> \o t \o <<"\n">>)
        /\ reg = [i |-> 0, args |-> <<T_text(kind)>>]

SpecText == InitText /\ [][NextParse]_vars

\* ------------------------------------------------------------------------
\* Registration after the factory: c = createConsole(triples...), then
\* calls of the public c.initArgs(i, triples...) with any index.
\* ------------------------------------------------------------------------

\* Largest number of triples in one initArgs call.
MaxRegArgs == 2

\* The triples the later calls register.
RegTriples == {T_add, T_say}

RegArgs == UNION {[1..n -> RegTriples] : n \in 1..MaxRegArgs}

\* The consoles the later calls are made on: capacities 2 and 3.
RegRegistries == { <<T_help, T_add>>, <<T_say, T_help, T_add>> }

InitReg ==
    \E args \in RegRegistries :
        /\ InitWith(createConsole(args), <<>>)
        /\ reg = [i |-> 0, args |-> args]

\* c.initArgs(i, args...).
Register ==
    /\ pc = "Idle"
    /\ \E i \in 0..(Len(commands) + 1), args \in RegArgs :
          /\ commands' = initArgs(commands, i, args)
          /\ reg' = [i |-> i, args |-> args]
    /\ UNCHANGED <<inputBuf, last, rx, pc, cur, line, out, calls, invoked, tokens,
                   fed>>

NextReg == Register

SpecReg == InitReg /\ [][NextReg]_vars

\* ------------------------------------------------------------------------
\* Vocabulary of the properties: the line a call read, its words, the
\* command its first word names
\* ------------------------------------------------------------------------

WhiteSpace == {" ", "\t", "\n", "\r", "\f", "\\v"}

\* t without its last character.
Front(t) == SubSeq(t, 1, Len(t) - 1)

\* t without trailing white space.
RECURSIVE RStrip(_)
RStrip(t) == IF t # <<>> /\ t[Len(t)] \in WhiteSpace THEN RStrip(Front(t)) ELSE t

\* The line of the call: the bytes it took, without the newline that ended
\* them and without trailing white space.
Trimmed == RStrip(IF line # <<>> /\ line[Len(line)] = "\n" THEN Front(line) ELSE line)

\* The maximal runs of characters of t that are not in seps, in order.
RECURSIVE SplitOn(_, _, _)
SplitOn(t, seps, word) ==
    IF t = <<>> THEN (IF word = <<>> THEN <<>> ELSE <<word>>)
    ELSE IF Head(t) \in seps
    THEN (IF word = <<>> THEN <<>> ELSE <<word>>) \o SplitOn(Tail(t), seps, <<>>)
    ELSE SplitOn(Tail(t), seps, Append(word, Head(t)))

\* The words of the line when only the space character separates words.
Words == SplitOn(Trimmed, {" "}, <<>>)

\* The argument words: all but the first.
ArgWords == Tail(Words)

\* A call of handleInput that read a non-blank line has come to its end.
Done == pc = "Idle" /\ Trimmed # <<>>

\* The slots whose name is the first word.
Matching == {i \in 1..Len(commands) : commands[i].name = Words[1]}

\* The first word names a command: it is not help and some slot carries it.
Matched == Done /\ Words[1] # help /\ Matching # {}

\* The command dispatched to: the matching slot of lowest index.
Cmd == commands[CHOOSE i \in Matching : \A j \in Matching : i <= j]

\* Its declared parameter kinds and their number.
Sig == Cmd.invoker.Executor
NParams == Len(Sig)

\* The conversion of the word w for a parameter of the kind: the converter
\* applied to w as a string of its own.
Conv(kind, w) == ArgTraits_parse(kind, Append(w, NUL), 1)

\* The k-th argument word exists and converts for the k-th parameter.
Converts(k) == k <= Len(ArgWords) /\ Conv(Sig[k], ArgWords[k]).ok

\* The value a handler must be given for the k-th parameter.
Expected(k) ==
    IF Sig[k] \in {"char*", "const char*"} THEN [text |-> ArgWords[k]]
    ELSE Conv(Sig[k], ArgWords[k]).out

\* A value a handler was given, without the address of a text.
Given(v) == IF "text" \in DOMAIN v THEN [text |-> v.text] ELSE v

\* The echo of the line.
Echo == <<"> ">> \o Trimmed \o <<"\r\n">>

\* The output of the call after its echo.
AfterEcho == SubSeq(out, Len(Echo) + 1, Len(out))

\* Number of diagnostics in the output.
Diagnostics ==
    Cardinality({k \in 1..Len(out) : out[k] \in {MissingMsg, InvalidMsg, UnknownMsg}})

UsageOf(c) == IF c.usage = NULLP THEN <<>> ELSE c.usage

MissingText(c) == <<MissingMsg>> \o c.name \o <<" ">> \o UsageOf(c) \o <<"\r\n">>

InvalidText(c, w) ==
    <<InvalidMsg>> \o w \o <<UsageMsg>> \o c.name \o <<" ">> \o UsageOf(c) \o <<"\r\n">>

\* ------------------------------------------------------------------------
\* C1.  For a registered command with N parameters and a line whose first
\* token matches it, one handleInput call ends in exactly one of: (a) the
\* first N argument tokens all convert, the handler is invoked exactly once
\* with N values, the i-th being the conversion of the i-th argument token,
\* and no diagnostic is written; (b) exactly one diagnostic is written and
\* the handler is not invoked.
\* ------------------------------------------------------------------------
C1_OutcomeA ==
    /\ \A k \in 1..NParams : Converts(k)
    /\ Len(calls) = 1
    /\ calls[1].f = Cmd.func
    /\ Len(calls[1].args) = NParams
    /\ \A k \in 1..NParams : Given(calls[1].args[k]) = Expected(k)
    /\ Diagnostics = 0

C1_OutcomeB == Diagnostics = 1 /\ calls = <<>>

C1_OneOutcome ==
    Matched => (C1_OutcomeA \/ C1_OutcomeB) /\ ~(C1_OutcomeA /\ C1_OutcomeB)

\* add 3 4 was dispatched: the handler got two values.
C1_Witness == Matched /\ Len(calls) = 1 /\ Len(calls[1].args) = 2

\* ------------------------------------------------------------------------
\* C2.  For a command with N >= 1 parameters, when the line supplies k < N
\* argument tokens that all convert, the diagnostic is exactly
\* Err: Missing argument. Usage: <name> <usage>, the handler is not
\* invoked, and no token is requested after the (k+1)-th.
\* ------------------------------------------------------------------------
C2_Short ==
    /\ Matched
    /\ Len(ArgWords) < NParams
    /\ \A k \in 1..Len(ArgWords) : Converts(k)

C2_MissingArgument ==
    C2_Short =>
        /\ AfterEcho = MissingText(Cmd)
        /\ calls = <<>>
        /\ Len(tokens) = 1 + (Len(ArgWords) + 1)

\* A line with one argument that converts, for a command that takes two.
C2_Witness == C2_Short /\ Len(ArgWords) = 1 /\ NParams = 2

\* ------------------------------------------------------------------------
\* C3.  Parameters are processed left to right and the pipeline stops at
\* the first failure: when the j-th argument token is the leftmost that
\* fails conversion, the diagnostic is exactly
\* Err: Invalid argument '<token_j>'. Usage: <name> <usage>, the handler is
\* not invoked and no later parameter produces a diagnostic.
\* ------------------------------------------------------------------------
\* The j-th argument word is the leftmost that does not convert.
C3_FirstBad(j) ==
    /\ j <= NParams
    /\ j <= Len(ArgWords)
    /\ ~Converts(j)
    /\ \A k \in 1..(j - 1) : Converts(k)

C3_InvalidArgument ==
    Matched =>
        \A j \in 1..NParams :
            C3_FirstBad(j) =>
                /\ AfterEcho = InvalidText(Cmd, ArgWords[j])
                /\ calls = <<>>
                /\ Diagnostics = 1
                /\ Len(tokens) = 1 + j

\* An invalid first argument with the second one missing.
C3_Witness == Matched /\ NParams = 2 /\ Len(ArgWords) = 1 /\ C3_FirstBad(1)

\* ------------------------------------------------------------------------
\* Numerals, as a grammar
\* ------------------------------------------------------------------------

DecDigits == {"0", "1", "2", "3", "4", "5", "6", "7", "8", "9"}
OctDigits == {"0", "1", "2", "3", "4", "5", "6", "7"}
HexDigits == DecDigits \cup {"a", "b", "c", "d", "e", "f", "A", "B", "C", "D", "E", "F"}

AllIn(t, S) == \A k \in 1..Len(t) : t[k] \in S

\* What is left of t after w white-space characters and sg sign characters.
Rest(t, w, sg) == SubSeq(t, w + sg + 1, Len(t))

\* The ways to read t as white space, an optional sign and a body.
Readings(t) ==
    {r \in [w : 0..Len(t), sg : {0, 1}] :
        /\ r.w + r.sg <= Len(t)
        /\ AllIn(SubSeq(t, 1, r.w), WhiteSpace)
        /\ r.sg = 1 => t[r.w + 1] \in {"-", "+"}}

\* An integer numeral of base 10, 8 (leading 0) or 16 (leading 0x, 0X).
IsIntBody(b) ==
    /\ b # <<>>
    /\ \/ b[1] # "0" /\ AllIn(b, DecDigits)
       \/ b[1] = "0" /\ AllIn(b, OctDigits)
       \/ Len(b) >= 3 /\ b[1] = "0" /\ b[2] \in {"x", "X"}
            /\ AllIn(SubSeq(b, 3, Len(b)), HexDigits)

\* Nothing, or an exponent: e or E, an optional sign, digits.
IsExponent(r) ==
    \/ r = <<>>
    \/ /\ Len(r) >= 2
       /\ r[1] \in {"e", "E"}
       /\ \/ AllIn(Tail(r), DecDigits)
          \/ Len(r) >= 3 /\ r[2] \in {"-", "+"} /\ AllIn(SubSeq(r, 3, Len(r)), DecDigits)

\* A decimal floating-point numeral, INF, INFINITY or NAN.
IsFloatBody(b) ==
    \/ [k \in 1..Len(b) |-> Lower(b[k])] \in
          {<<"i", "n", "f">>, <<"i", "n", "f", "i", "n", "i", "t", "y">>, <<"n", "a", "n">>}
    \/ \E i \in 0..Len(b), d \in {0, 1}, f \in 0..Len(b) :
          /\ i + d + f <= Len(b)
          /\ i + f >= 1
          /\ AllIn(SubSeq(b, 1, i), DecDigits)
          /\ d = 1 => b[i + 1] = "."
          /\ d = 0 => f = 0
          /\ AllIn(SubSeq(b, i + d + 1, i + d + f), DecDigits)
          /\ IsExponent(SubSeq(b, i + d + f + 1, Len(b)))

\* The token is, after optional white space and sign, a numeral of the kind.
IsNumeral(kind, t) ==
    IF kind \in {"int", "long"}
    THEN \E r \in Readings(t) : IsIntBody(Rest(t, r.w, r.sg))
    ELSE \E r \in Readings(t) : IsFloatBody(Rest(t, r.w, r.sg))

\* ------------------------------------------------------------------------
\* C4.  For every numeric parameter kind (int, long, float, double) and
\* every token over a bounded alphabet, conversion reports ok = true if and
\* only if the token is wholly a numeral (optional sign; for integers base
\* 10, 8 with a leading 0 or 16 with 0x); a token with trailing non-numeric
\* characters reports ok = false and no handler is invoked.
\* ------------------------------------------------------------------------
\* A command with one numeric parameter was given an argument word.
C4_Case ==
    /\ Matched
    /\ NParams = 1
    /\ Sig[1] \in NumericKinds
    /\ ArgWords # <<>>

C4_WholeNumeral ==
    C4_Case =>
        /\ \A kind \in {"int", "long", "float", "double"} :
               Conv(kind, ArgWords[1]).ok <=> IsNumeral(kind, ArgWords[1])
        /\ (Len(calls) = 1) <=> IsNumeral(Sig[1], ArgWords[1])
        /\ ~IsNumeral(Sig[1], ArgWords[1]) =>
               calls = <<>> /\ AfterEcho = InvalidText(Cmd, ArgWords[1])

\* The token 1x, a numeral followed by a letter, was refused.
C4_Witness ==
    C4_Case /\ Sig[1] = "int" /\ ArgWords[1] = <<"1", "x">> /\ calls = <<>>

\* ------------------------------------------------------------------------
\* C5.  For an int or long parameter every accepted token yields the
\* integer its numeral denotes in its base, also when that integer lies
\* outside the range of the parameter type.
\* ------------------------------------------------------------------------
RECURSIVE DigitsValue(_, _)
DigitsValue(ds, base) ==
    IF ds = <<>> THEN 0
    ELSE DigitsValue(Front(ds), base) * base + DigitVal(ds[Len(ds)])

\* The integer an integer numeral body denotes.
BodyValue(b) ==
    IF Len(b) >= 3 /\ b[2] \in {"x", "X"} THEN DigitsValue(SubSeq(b, 3, Len(b)), 16)
    ELSE IF b[1] = "0" THEN DigitsValue(b, 8)
    ELSE DigitsValue(b, 10)

\* The integer the numeral t denotes.
Denotes(t) ==
    LET r == CHOOSE r \in Readings(t) : IsIntBody(Rest(t, r.w, r.sg))
    IN  IF r.sg = 1 /\ t[r.w + 1] = "-" THEN -BodyValue(Rest(t, r.w, r.sg))
        ELSE BodyValue(Rest(t, r.w, r.sg))

\* The number in a value given to a handler.
NumberOf(v) == IF "int" \in DOMAIN v THEN v.int ELSE v.long

C5_ValueDenoted ==
    (Matched /\ Len(calls) = 1) =>
        \A k \in 1..NParams :
            Sig[k] \in {"int", "long"} =>
                NumberOf(calls[1].args[k]) = Denotes(ArgWords[k])

\* ------------------------------------------------------------------------
\* C6.  A line is split into tokens on white space: for every line whose
\* name and arguments are separated by any white space (space or tab, in
\* runs of any length) the first token is the command name and each
\* following token is one argument, with the dispatch of the same line
\* written with single spaces.
\* ------------------------------------------------------------------------
\* The tokens strtok gave are the words ws, in order, then NULL; the command
\* called is the one ws[1] names and its values are those of ws[2], ...
C6_TokensAre(ws) ==
    Done =>
        /\ \A k \in 1..Len(tokens) :
               tokens[k] = (IF k <= Len(ws) THEN ws[k] ELSE NULLP)
        /\ invoked # <<>> => invoked[1].name = ws[1]
        /\ calls # <<>> =>
               \A k \in 1..Len(calls[1].args) :
                   Given(calls[1].args[k]) =
                       (IF Sig[k] \in {"char*", "const char*"} THEN [text |-> ws[k + 1]]
                        ELSE Conv(Sig[k], ws[k + 1]).out)

RECURSIVE Listing(_)
Listing(cmds) ==
    IF cmds = <<>> THEN <<>>
    ELSE (<<"  ">> \o Head(cmds).name
            \o (IF Head(cmds).usage = NULLP THEN <<>> ELSE <<" ">> \o Head(cmds).usage)
            \o <<"\r\n">>)
         \o Listing(Tail(cmds))

C7_HelpLists ==
    (Done /\ Words[1] = help) =>
        /\ AfterEcho = Listing(commands)
        /\ calls = <<>>
        /\ invoked = <<>>

\* help followed by another word, with a command registered as help.
C7_Witness ==
    /\ Done
    /\ Words[1] = help
    /\ Len(Words) = 2
    /\ \E i \in 1..Len(commands) : commands[i].name = help

\* ------------------------------------------------------------------------
\* C8.  Lookup scans in registration order and the first slot whose name
\* equals the first token exactly wins: the invoker of the lowest matching
\* slot is called with that slot's handler, name and usage, and no other
\* invoker is called, also when two slots carry the same name.
\* ------------------------------------------------------------------------
\* The lowest slot whose name is the first word.
FirstMatch == CHOOSE i \in Matching : \A j \in Matching : i <= j

C8_FirstMatchWins ==
    (pc \in {"Idle", "Handler"} /\ Trimmed # <<>> /\ Words[1] # help) =>
        invoked = IF Matching = {} THEN <<>>
                  ELSE <<[slot  |-> FirstMatch,
                          f     |-> commands[FirstMatch].func,
                          name  |-> commands[FirstMatch].name,
                          usage |-> commands[FirstMatch].usage]>>

\* Two slots carry the name of the first word and one invoker was called.
C8_Witness == Done /\ Cardinality(Matching) = 2 /\ Len(invoked) = 1

\* ------------------------------------------------------------------------
\* C9.  When the first token is not help and equals no registered name,
\* handleInput writes exactly Unknown command. Type 'help' for list of
\* commands. once and invokes no handler; when the token matches a
\* registered name that diagnostic is never written.
\* ------------------------------------------------------------------------
C9_UnknownCommand ==
    (Done /\ Words[1] # help) =>
        IF Matching = {}
        THEN /\ AfterEcho = <<UnknownMsg, "\r\n">>
             /\ calls = <<>>
             /\ invoked = <<>>
        ELSE \A k \in 1..Len(out) : out[k] # UnknownMsg

\* A first word that is a proper prefix of a registered name.
C9_Witness ==
    /\ Done
    /\ Matching = {}
    /\ \E i \in 1..Len(commands) :
          /\ Len(Words[1]) < Len(commands[i].name)
          /\ Words[1] = SubSeq(commands[i].name, 1, Len(Words[1]))

\* ------------------------------------------------------------------------
\* C10.  Every handleInput call whose handler terminates returns to Idle
\* whatever the outcome, and within one call at most one line is read, at
\* most one command is dispatched and at most one handler is invoked.
\* ------------------------------------------------------------------------
\* The bytes a call took hold at most one newline, the last of them.
OneLine == \A k \in 1..Len(line) : line[k] = "\n" => k = Len(line)

C10_OneDispatch ==
    /\ [](OneLine /\ Len(invoked) <= 1 /\ Len(calls) <= 1)
    /\ [][pc # "Idle" => rx' = rx /\ line' = line]_vars
    /\ (pc # "Idle") ~> (pc = "Idle")

\* A call made with two lines waiting has ended: it dispatched the first
\* and left the second in the stream.
C10_Witness ==
    /\ Done
    /\ Len(calls) = 1
    /\ rx # <<>>
    /\ rx[Len(rx)] = "\n"
    /\ \A k \in 1..(Len(rx) - 1) : rx[k] # "\n"

\* ------------------------------------------------------------------------
\* C11.  For a command with N parameters (N = 0 included), when the first N
\* argument tokens convert the handler is invoked exactly once with their
\* values whatever tokens follow: the tokenizer is asked for the name and
\* N argument tokens only, and no diagnostic is written.
\* ------------------------------------------------------------------------
C11_ExtraIgnored ==
    (Matched /\ \A k \in 1..NParams : Converts(k)) =>
        /\ Len(calls) = 1
        /\ calls[1].f = Cmd.func
        /\ Len(calls[1].args) = NParams
        /\ \A k \in 1..NParams : Given(calls[1].args[k]) = Expected(k)
        /\ AfterEcho = <<>>
        /\ Len(tokens) = NParams + 1

\* A line with more argument words than parameters was dispatched and the
\* handler was called.
C11_Witness == Matched /\ Len(ArgWords) > NParams /\ Len(calls) = 1

\* ------------------------------------------------------------------------
\* C12.  After N commands are registered a help request lists exactly
\* those N (name, usage) entries, one per line, in registration order, and
\* no step of any handleInput call changes a slot of the registry, so every
\* later help request yields the same listing.
\* ------------------------------------------------------------------------
\* The slot a triple is registered as.
SlotOf(triple) ==
    [name |-> triple.name, usage |-> triple.usage, func |-> triple.func,
     invoker |-> [Executor |-> triple.sig]]

\* The registry holds the registered triples, slot by slot.
Registered ==
    /\ Len(commands) = Len(reg.args)
    /\ \A i \in 1..Len(commands) : commands[i] = SlotOf(reg.args[i])

C12_ListingRoundTrip ==
    /\ [](Registered /\ ((Done /\ Words[1] = help) => AfterEcho = Listing(reg.args)))
    /\ [][commands' = commands]_vars

\* A help request came to its end after an earlier, longer line was
\* dispatched: bytes of that line are still in the buffer behind "help".
C12_Witness ==
    /\ Done
    /\ Trimmed = help
    /\ Len(commands) = 3
    /\ AfterEcho = Listing(reg.args)
    /\ \E k \in 6..INPUT_BUF_SIZE : inputBuf[k] \notin {NUL, JUNK}

\* ------------------------------------------------------------------------
\* C13.  The outcome of handleInput on a line (what it writes, which
\* handler it calls and with which values) depends only on that line and
\* on the registry: the save pointer of the tokenizer and the bytes an
\* earlier line left in the buffer have no effect, so a repeated line
\* gives the same diagnostics and the same invocation.
\* ------------------------------------------------------------------------
\* The buffer of a console whose first line is t.
FreshBuf(t) ==
    [i \in 1..INPUT_BUF_SIZE |->
        IF i <= Len(t) THEN t[i] ELSE IF i = Len(t) + 1 THEN NUL ELSE JUNK]

\* What the invoker of slot i does from the buffer b and the output o.
FreshInvoke(cmds, i, b, lst, o) ==
    CallInvoker(cmds[i], i,
        [buf |-> b, last |-> lst, out |-> o, calls |-> <<>>, invoked |-> <<>>,
         tokens |-> <<>>, called |-> FALSE])

\* The output and the handler calls of handleInput after the first token t,
\* o being the echo.
FreshDispatch(cmds, t, o) ==
    IF t.token = 0 THEN [out |-> o, calls |-> <<>>]
    ELSE IF StrEq(t.buf, t.token, help)
    THEN [out |-> printHelp(cmds, 0, o), calls |-> <<>>]
    ELSE IF Lookup(cmds, t.buf, t.token, 0) = 0
    THEN [out |-> println_F(o, UnknownMsg), calls |-> <<>>]
    ELSE With(FreshInvoke(cmds, Lookup(cmds, t.buf, t.token, 0), t.buf, t.last, o),
              LAMBDA x : [out |-> x.out, calls |-> x.calls])

\* The outcome of handleInput on the line text for a console that has read
\* no line before.
FreshRun(cmds, text) ==
    With(strtok(FreshBuf(text), 1, 0, Delimiters),
         LAMBDA t : FreshDispatch(cmds, t, <<"> ">> \o text \o <<"\r\n">>))

C13_LineAlone ==
    Done => [out |-> out, calls |-> calls] = FreshRun(commands, Trimmed)

\* add 3 4 was dispatched to the handler while the buffer still held bytes
\* of an earlier, longer line behind it.
C13_Witness ==
    /\ Done
    /\ Trimmed = Join(<<add, n3, n4>>, SP)
    /\ Len(calls) = 1
    /\ \E k \in (Len(Trimmed) + 2)..INPUT_BUF_SIZE : inputBuf[k] \notin {NUL, JUNK}

\* ------------------------------------------------------------------------
\* C14.  handleInput takes no action when there is nothing to dispatch.
\* With no byte available the call returns without reading, writing,
\* changing the input buffer or invoking a handler; when the line read is
\* empty once its trailing white space is trimmed, the call writes nothing
\* (no echo, no diagnostic) and invokes no handler.
\* ------------------------------------------------------------------------
\* The call that ended read a line that is blank.
BlankRead == pc = "Idle" /\ line # <<>> /\ Trimmed = <<>>

\* The call wrote nothing, asked for no token and invoked nothing.
NoAction == out = <<>> /\ tokens = <<>> /\ invoked = <<>> /\ calls = <<>>

C14_NothingToDispatch ==
    /\ [][(pc = "Idle" /\ rx = <<>> /\ fed' = fed) =>
              /\ pc' = "Idle"
              /\ inputBuf' = inputBuf
              /\ last' = last
              /\ rx' = rx
              /\ line' = <<>>
              /\ NoAction']_vars
    /\ [](BlankRead => NoAction)

\* A call found the stream empty after an earlier call had read a line:
\* the buffer still holds that line and nothing was written.
C14_Witness ==
    /\ pc = "Idle"
    /\ rx = <<>>
    /\ line = <<>>
    /\ inputBuf[1] \notin {NUL, JUNK}
    /\ NoAction

\* ------------------------------------------------------------------------
\* C15.  Registering at an index greater than or equal to the capacity is a
\* silent no-op: every slot keeps its name, usage, handler and invoker,
\* nothing outside the table is written and nothing is reported; the
\* triples that follow an out-of-range one in the same call are not
\* registered either.
\* ------------------------------------------------------------------------
\* The slots the call initArgs(r.i, r.args...) addresses, 1-based.
Addressed(r) == (r.i + 1)..(r.i + Len(r.args))

C15_OutOfRangeNoOp ==
    [][/\ DOMAIN commands' = DOMAIN commands
       /\ reg'.i >= Len(commands) => commands' = commands
       /\ \A k \in DOMAIN commands :
             commands'[k] = IF k \in Addressed(reg')
                            THEN SlotOf(reg'.args[k - reg'.i])
                            ELSE commands[k]
       /\ inputBuf' = inputBuf
       /\ out' = out]_vars

\* The last call started past the table, after an earlier call had put
\* say in the first slot: the slot still holds it.
C15_Witness ==
    /\ reg.i >= Len(commands)
    /\ Len(commands) = 2
    /\ commands[1].name = say

\* ------------------------------------------------------------------------
\* C16.  The conversion for a text parameter (char* or const char*)
\* succeeds for every token whatever its content, the handler is given the
\* token itself, unparsed and in place in the input buffer, and a text
\* parameter never produces the Invalid argument diagnostic.
\* ------------------------------------------------------------------------
\* The k-th parameter is a text one and the line has a word for it, the
\* words before it converting.
C16_Case(k) ==
    /\ Sig[k] \in TextKinds
    /\ k <= Len(ArgWords)
    /\ \A j \in 1..(k - 1) : Converts(j)

C16_TextAlwaysConverts ==
    Matched =>
        \A k \in 1..NParams :
            C16_Case(k) =>
                /\ Conv(Sig[k], ArgWords[k]).ok
                /\ AfterEcho # InvalidText(Cmd, ArgWords[k])
                /\ IF k = NParams THEN Len(calls) = 1 ELSE Len(tokens) >= k + 2
                /\ Len(calls) = 1 =>
                      /\ calls[1].args[k].text = ArgWords[k]
                      /\ CStr(inputBuf, calls[1].args[k].ptr) = ArgWords[k]

\* A text parameter was given a token that starts like a numeral and goes
\* on with other characters.
C16_Witness ==
    /\ Matched
    /\ NParams = 1
    /\ Sig[1] \in TextKinds
    /\ Len(calls) = 1
    /\ calls[1].args[1].text = <<"1", "x", "-">>

\* ------------------------------------------------------------------------
\* C17.  No byte of the stream is lost or dispatched twice: each call that
\* reads takes one segment from the front of the stream, which ends at the
\* first newline or after INPUT_BUF_SIZE - 1 = 63 bytes, whichever comes
\* first, so that a longer line is split and its rest is read as a line of
\* its own by the next call.
\* ------------------------------------------------------------------------
\* The segment l ends at its only newline, within 63 bytes.
EndsAtNewline(l) ==
    /\ Len(l) <= INPUT_BUF_SIZE - 1
    /\ \A k \in 1..Len(l) : l[k] = "\n" <=> k = Len(l)

\* The segment l is 63 bytes without a newline.
EndsAtLimit(l) ==
    /\ Len(l) = INPUT_BUF_SIZE - 1
    /\ \A k \in 1..Len(l) : l[k] # "\n"

\* A step of handleInput keeps the bytes of the stream: the read takes the
\* segment from its front, the later steps leave it alone.
Conserved ==
    IF pc = "Idle" THEN rx = line' \o rx' ELSE rx' = rx /\ line' = line

C17_SegmentPerCall ==
    /\ [][fed' = fed => Conserved]_vars
    /\ [](line # <<>> => EndsAtNewline(line) \/ EndsAtLimit(line))

\* ------------------------------------------------------------------------
\* C18.  Every write of readInputLine to the input buffer is at an index
\* 0..INPUT_BUF_SIZE - 1: at most 63 bytes are read, the terminator is
\* written at index len <= 63, trimming moves it towards index 0 and never
\* below, and after the read the buffer holds a NUL-terminated string of
\* at most 63 characters.
\* ------------------------------------------------------------------------
\* The string the buffer holds from its start.
BufText == CStr(inputBuf, 1)

\* The bytes of the segment that were stored: all but its newline.
StoredBytes == IF line # <<>> /\ line[Len(line)] = "\n" THEN Front(line) ELSE line

C18_BufferBounded ==
    /\ DOMAIN inputBuf = 1..INPUT_BUF_SIZE
    /\ line # <<>> =>
          /\ Len(StoredBytes) <= INPUT_BUF_SIZE - 1
          /\ Len(BufText) <= INPUT_BUF_SIZE - 1
          /\ inputBuf[Len(BufText) + 1] = NUL
    /\ pc = "LineReady" =>
          /\ BufText = RStrip(StoredBytes)
          /\ \A k \in (Len(BufText) + 1)..(Len(StoredBytes) + 1) : inputBuf[k] = NUL

\* A segment of 63 bytes was read: the terminator is in the last byte of
\* the buffer.
C18_Witness ==
    /\ pc = "LineReady"
    /\ Len(BufText) = INPUT_BUF_SIZE - 1
    /\ inputBuf[INPUT_BUF_SIZE] = NUL

\* ------------------------------------------------------------------------
\* C19.  For every line without a NUL byte, whenever readInputLine reports
\* a non-empty trimmed line the first token exists (the early return of
\* handleInput on a missing first token is never taken), so every echoed
\* line is followed by exactly one of: the help listing, one call of the
\* invoker of a matched command, the unknown-command diagnostic.
\* ------------------------------------------------------------------------
\* The call wrote its echo and then the help listing.
C19_Help ==
    /\ tokens[1] = help
    /\ AfterEcho = Listing(commands)
    /\ invoked = <<>>

\* The call wrote its echo and then called one invoker.
C19_Invoker ==
    /\ tokens[1] # help
    /\ Len(invoked) = 1
    /\ \A k \in 1..Len(out) : out[k] # UnknownMsg

\* The call wrote its echo and then the unknown-command diagnostic.
C19_Unknown ==
    /\ tokens[1] # help
    /\ invoked = <<>>
    /\ AfterEcho = <<UnknownMsg, "\r\n">>

C19_FirstTokenExists ==
    (\A k \in 1..Len(line) : line[k] # NUL) =>
        /\ pc = "LineReady" => strtok(inputBuf, 1, last, Delimiters).token # 0
        /\ (pc = "Idle" /\ out # <<>>) =>
              /\ tokens # <<>>
              /\ tokens[1] # NULLP
              /\ C19_Help \/ C19_Invoker \/ C19_Unknown
              /\ ~(C19_Help /\ C19_Invoker)
              /\ ~(C19_Help /\ C19_Unknown)
              /\ ~(C19_Invoker /\ C19_Unknown)

\* A line that starts with a space was echoed and its command was found
\* behind the space.
C19_Witness ==
    /\ pc = "Idle"
    /\ out # <<>>
    /\ line # <<>>
    /\ line[1] = " "
    /\ C19_Invoker

\* ------------------------------------------------------------------------
\* C20.  Every non-empty trimmed line is echoed exactly once, as "> "
\* followed by the trimmed line, before the tokenizer changes the buffer
\* and before any listing, diagnostic or handler call of the same call:
\* the output of a call that dispatches is never a diagnostic alone.
\* ------------------------------------------------------------------------
\* Number of times the echo prompt was written.
Prompts == Cardinality({k \in 1..Len(out) : out[k] = "> "})

C20_EchoFirst ==
    /\ pc = "LineReady" => out = <<>> /\ BufText = Trimmed /\ Trimmed # <<>>
    /\ (pc \in {"Dispatching", "Handler"} \/ Done) => out # <<>>
    /\ (calls # <<>> \/ invoked # <<>>) => out # <<>>
    /\ out # <<>> =>
          /\ Len(out) >= Len(Echo)
          /\ SubSeq(out, 1, Len(Echo)) = Echo
          /\ Prompts = 1

\* A line of two words ended in a diagnostic: the whole line was echoed in
\* front of it.
C20_Witness ==
    /\ Done
    /\ Len(Words) = 2
    /\ Diagnostics = 1
    /\ SubSeq(out, 1, Len(Echo)) = Echo

====
